---- MODULE Spec2Model ----
(***************************************************************************)
(* MonoNote block editor (src/editor.js), its controller (src/app.js) and  *)
(* the page store (storage module, src/unnamed/part_000).                  *)
(*                                                                         *)
(* Text is a sequence of one-character strings.  Block indices are 0-based *)
(* as in the source; TLA+ sequences are 1-based, so blocks[i] of the       *)
(* source is blocks[i + 1] here.                                           *)
(*                                                                         *)
(* Every method of the Editor object is an operator from a program state   *)
(* (a record of the program's variables) to the program state after the    *)
(* call; an event handler is the composition of the calls it makes.        *)
(***************************************************************************)
EXTENDS Integers, Sequences, FiniteSets, TLC

\* ------------------------------------------------------------------ bounds
MaxBlocks == 3
MaxLen == 2
MaxSteps == 4
RTMaxBlocks == 2
RTMaxLen == 4

\* ------------------------------------------------------------- input sets
Chars == {"a", "\n"}
RTChars == {"a", " ", "\n"}
Pages == {"A", "B"}
TitleValues == {"", "T"}
InsertTexts == {<<"b">>}
InitContents ==
    { <<>>,
      <<"a", "b", "\n", "\n", "b">>,
      <<"a", "\n", "\n", "b", "\n", "\n", "a", "b">> }
OtherContent == <<"b">>

None == "none"

VARIABLES
    blocks,             \* Editor.blocks: sequence of block contents
    currentBlockIndex,  \* Editor.currentBlockIndex, -1 = none
    selectedBlocks,     \* Editor.selectedBlocks
    saveTimeout,        \* Editor.saveTimeout: "null", or the state of the timer it names
    saveTimers,         \* number of debounce timers that are scheduled and not yet fired
    inputs,             \* live textareas of the block editor: block index -> input.value
    domBlocks,          \* number of .block-item elements in #blockEditor
    titleInput,         \* Editor.titleInput.value
    currentPageId,      \* App.currentPageId
    store,              \* localStorage pages: page id -> [title, content]
    nwrites,            \* Storage.savePage calls made by the last handler
    err,                \* the last handler ended in an uncaught TypeError
    blurTimers,         \* pending 100ms blur timers: captured index -> count
    steps,              \* handlers run so far (bounded by MaxSteps)
    run,                \* the current run of content keystrokes
    lastOp,             \* the last handler and its arguments
    rtDoc, rtText, rtOut, rtPc,  \* round-trip harness
    lkPages,            \* link harness: Object.values(Storage.getAllPages())
    lkArg,              \* link harness: argument of the last call
    lkOut,              \* link harness: result of the last call
    lkPc,               \* link harness: the last call
    lkEdits,            \* link harness: Storage.savePage calls so far
    panelShown,         \* #smartActionsPanel is rendered and not hidden
    llmAction,          \* LLM.executeAction awaiting callLLM: its actionKey, or "none"
    llmPage,            \* App.currentPageId when that executeAction started
    fdFolders,          \* folder harness: localStorage folders, id -> parentId
    fdPages,            \* folder harness: localStorage pages, id -> folderId
    fdNextId,           \* folder harness: the next id Storage.generateId returns
    fdLast,             \* folder harness: the last call and the store before it
    vcFinal,            \* Voice.finalTranscripts
    vcResults,          \* event.results of the recognizer's current session
    vcDelivered,        \* transcripts the recognizer delivered as final, in order
    vcPc,               \* recognizer: "listening", or "ended" until the restart timer
    rnDlg               \* Sidebar.pendingInputCallback of a page rename: [id, page]

edVars == <<blocks, currentBlockIndex, selectedBlocks, saveTimeout, saveTimers,
            inputs, domBlocks, titleInput, currentPageId, store, nwrites, err>>
histVars == <<blurTimers, steps, run, lastOp>>
rtVars == <<rtDoc, rtText, rtOut, rtPc>>
lkVars == <<lkPages, lkArg, lkOut, lkPc, lkEdits>>
aiVars == <<panelShown, llmAction, llmPage>>
fdVars == <<fdFolders, fdPages, fdNextId, fdLast>>
vcVars == <<vcFinal, vcResults, vcDelivered, vcPc>>
rnVars == <<rnDlg>>
auxVars == <<fdVars, vcVars, rnVars>>
sideVars == <<rtVars, lkVars, aiVars, auxVars>>
vars == <<blocks, currentBlockIndex, selectedBlocks, saveTimeout, saveTimers,
          inputs, domBlocks, titleInput, currentPageId, store, nwrites, err,
          blurTimers, steps, run, lastOp, rtDoc, rtText, rtOut, rtPc,
          lkPages, lkArg, lkOut, lkPc, lkEdits, panelShown, llmAction, llmPage,
          fdFolders, fdPages, fdNextId, fdLast,
          vcFinal, vcResults, vcDelivered, vcPc, rnDlg>>

\* ---------------------------------------------------------- text helpers
IsSpace(c) == c \in {" ", "\n"}

RECURSIVE TrimStart(_)
TrimStart(t) ==
    IF t # <<>> /\ IsSpace(Head(t)) THEN TrimStart(Tail(t)) ELSE t

RECURSIVE TrimEnd(_)
TrimEnd(t) ==
    IF t # <<>> /\ IsSpace(t[Len(t)]) THEN TrimEnd(SubSeq(t, 1, Len(t) - 1)) ELSE t

\* String.prototype.trim
Trim(t) == TrimEnd(TrimStart(t))

\* String.prototype.split('\n')
RECURSIVE SplitLines(_)
SplitLines(t) ==
    IF \E k \in 1..Len(t) : t[k] = "\n"
    THEN LET k == CHOOSE j \in 1..Len(t) :
                     t[j] = "\n" /\ \A m \in 1..(j - 1) : t[m] # "\n"
         IN <<SubSeq(t, 1, k - 1)>> \o SplitLines(SubSeq(t, k + 1, Len(t)))
    ELSE <<t>>

\* Array.prototype.join(sep)
RECURSIVE JoinWith(_, _)
JoinWith(parts, sep) ==
    IF parts = <<>> THEN <<>>
    ELSE IF Len(parts) = 1 THEN parts[1]
    ELSE parts[1] \o sep \o JoinWith(Tail(parts), sep)

\* String.prototype.substring(0, p) and substring(p)
BeforeCursor(t, p) == SubSeq(t, 1, p)
AfterCursor(t, p) == SubSeq(t, p + 1, Len(t))

\* Array.prototype.splice start-index normalisation
SpliceStart(len, start) ==
    IF start < 0 THEN (IF len + start < 0 THEN 0 ELSE len + start)
    ELSE IF start > len THEN len ELSE start

\* blocks.splice(atIndex, 0, x)
SpliceInsert(seq, atIndex, x) ==
    LET k == SpliceStart(Len(seq), atIndex)
    IN SubSeq(seq, 1, k) \o <<x>> \o SubSeq(seq, k + 1, Len(seq))

\* blocks.splice(index, 1)
SpliceRemove(seq, index) ==
    LET k == SpliceStart(Len(seq), index)
    IN IF k >= Len(seq) THEN seq
       ELSE SubSeq(seq, 1, k) \o SubSeq(seq, k + 2, Len(seq))

SetMax(S) == CHOOSE m \in S : \A x \in S : x <= m

\* variant: the selected indices are processed lowest first
RECURSIVE SortDescending_Ascending(_)
SortDescending_Ascending(S) ==
    IF S = {} THEN <<>>
    ELSE Append(SortDescending_Ascending(S \ {SetMax(S)}), SetMax(S))

\* Array.from(this.selectedBlocks).sort((a, b) => b - a)
RECURSIVE SortDescending(_)
SortDescending(S) ==
    IF S = {} THEN <<>> ELSE <<SetMax(S)>> \o SortDescending(S \ {SetMax(S)})

\* ------------------------------------------------- serialize / deserialize
BlockSeparator == <<"\n", "\n">>

\* variant: blocks joined by a single newline
Serialize_SingleNewline(bs) == JoinWith(bs, <<"\n">>)

\* this.blocks.map(b => b.content).join('\n\n')
Serialize(bs) == JoinWith(bs, BlockSeparator)

\* the grouping loop of loadPage; i is the 0-based line index
\* variant: a whitespace-only group is kept as an empty block
RECURSIVE GroupLines_KeepEmpty(_, _, _, _)
GroupLines_KeepEmpty(lines, i, blockLines, acc) ==
    IF i >= Len(lines) THEN acc
    ELSE LET line == lines[i + 1]
             pushed == Append(blockLines, line)
             atEnd == i = Len(lines) - 1
             blockContent == Trim(JoinWith(pushed, <<"\n">>))
         IN IF line = <<>> \/ atEnd
            THEN GroupLines_KeepEmpty(lines, i + 1, <<>>, Append(acc, blockContent))
            ELSE GroupLines_KeepEmpty(lines, i + 1, pushed, acc)

RECURSIVE GroupLines(_, _, _, _)
GroupLines(lines, i, blockLines, acc) ==
    IF i >= Len(lines) THEN acc
    ELSE LET line == lines[i + 1]
             pushed == Append(blockLines, line)
             atEnd == i = Len(lines) - 1
             blockContent == Trim(JoinWith(pushed, <<"\n">>))
         IN IF line = <<>> \/ atEnd
            THEN GroupLines(lines, i + 1, <<>>,
                            IF blockContent # <<>> \/ atEnd
                            THEN Append(acc, blockContent) ELSE acc)
            ELSE GroupLines(lines, i + 1, pushed, acc)

\* loadPage's parsing of page.content into blocks
Deserialize(content) ==
    LET parsed == GroupLines(SplitLines(content), 0, <<>>, <<>>)
    IN IF Len(parsed) = 0 THEN << <<>> >> ELSE parsed

\* ------------------------------------------------------------ program state
NoInputs == [i \in {} |-> <<>>]

St == [blocks |-> blocks, currentBlockIndex |-> currentBlockIndex,
       selectedBlocks |-> selectedBlocks, saveTimeout |-> saveTimeout,
       saveTimers |-> saveTimers, inputs |-> inputs, domBlocks |-> domBlocks,
       titleInput |-> titleInput, currentPageId |-> currentPageId,
       store |-> store, nwrites |-> 0, err |-> FALSE]

Becomes(s) ==
    /\ blocks' = s.blocks
    /\ currentBlockIndex' = s.currentBlockIndex
    /\ selectedBlocks' = s.selectedBlocks
    /\ saveTimeout' = s.saveTimeout
    /\ saveTimers' = s.saveTimers
    /\ inputs' = s.inputs
    /\ domBlocks' = s.domBlocks
    /\ titleInput' = s.titleInput
    /\ currentPageId' = s.currentPageId
    /\ store' = s.store
    /\ nwrites' = s.nwrites
    /\ err' = s.err

\* a TypeError thrown inside a handler: the rest of the handler does not run
Throw(s) == [s EXCEPT !.err = TRUE]

\* ------------------------------------------------------------------ Storage
\* Storage.savePage for a page that has an id
savePage(s, id, page) ==
    [s EXCEPT !.store = [p \in DOMAIN s.store \cup {id} |->
                            IF p = id THEN page ELSE s.store[p]],
              !.nwrites = @ + 1]

\* Storage.deletePage
deletePage(s, id) ==
    [s EXCEPT !.store = [p \in DOMAIN s.store \ {id} |-> s.store[p]]]

\* ------------------------------------------------------------------- Editor
\* variant: an immediate save also cancels the pending debounce timer
save_ClearsTimer(s) ==
    IF s.err THEN s
    ELSE LET s1 == [s EXCEPT !.saveTimers = IF s.saveTimeout = "live" THEN @ - 1 ELSE @,
                             !.saveTimeout = IF @ = "live" THEN "fired" ELSE @]
         IN IF s1.currentPageId = None THEN s1
            ELSE IF s1.currentPageId \notin DOMAIN s1.store THEN s1
            ELSE savePage(s1, s1.currentPageId,
                     [title |-> IF s1.titleInput = "" THEN "Untitled" ELSE s1.titleInput,
                      content |-> Serialize(s1.blocks)])

\* variant: save writes the page also when Storage.getPage finds none
save_Upsert(s) ==
    IF s.err THEN s
    ELSE IF s.currentPageId = None THEN s
    ELSE savePage(s, s.currentPageId,
                  [title |-> IF s.titleInput = "" THEN "Untitled" ELSE s.titleInput,
                   content |-> Serialize(s.blocks)])

\* Editor.save
save(s) ==
    IF s.err THEN s
    ELSE IF s.currentPageId = None THEN s
    ELSE IF s.currentPageId \notin DOMAIN s.store THEN s
    ELSE savePage(s, s.currentPageId,
                  [title |-> IF s.titleInput = "" THEN "Untitled" ELSE s.titleInput,
                   content |-> Serialize(s.blocks)])

\* variant: the pending timer is not cancelled before a new one is scheduled
debouncedSave_NoClear(s) ==
    IF s.err THEN s
    ELSE [s EXCEPT !.saveTimers = @ + 1, !.saveTimeout = "live"]

\* Editor.debouncedSave
debouncedSave(s) ==
    IF s.err THEN s
    ELSE LET cleared == IF s.saveTimeout = "live" THEN s.saveTimers - 1
                        ELSE s.saveTimers
         IN [s EXCEPT !.saveTimers = cleared + 1, !.saveTimeout = "live"]

\* variant: re-rendering leaves the textareas of the old elements active
renderAllBlocks_KeepsInputs(s) ==
    IF s.err THEN s
    ELSE [s EXCEPT !.domBlocks = Len(s.blocks)]

\* Editor.renderAllBlocks
renderAllBlocks(s) ==
    IF s.err THEN s
    ELSE [s EXCEPT !.inputs = NoInputs, !.domBlocks = Len(s.blocks)]

\* variant: a selection change also requests the debounced write
toggleBlockSelection_Saves(s, index, selected) ==
    IF s.err THEN s
    ELSE debouncedSave([s EXCEPT !.selectedBlocks =
                           IF selected THEN @ \cup {index} ELSE @ \ {index}])

\* Editor.toggleBlockSelection
toggleBlockSelection(s, index, selected) ==
    IF s.err THEN s
    ELSE [s EXCEPT !.selectedBlocks =
              IF selected THEN @ \cup {index} ELSE @ \ {index}]

\* variant: the last remaining block is kept with its content
RECURSIVE DeleteEach_KeepContent(_, _)
DeleteEach_KeepContent(s, indices) ==
    IF s.err \/ indices = <<>> THEN s
    ELSE LET index == Head(indices)
         IN IF Len(s.blocks) > 1
            THEN DeleteEach_KeepContent([s EXCEPT !.blocks = SpliceRemove(@, index)],
                                        Tail(indices))
            ELSE DeleteEach_KeepContent(s, Tail(indices))

\* variant: every selected block is spliced out, also the last remaining one
RECURSIVE DeleteEach_NoGuard(_, _)
DeleteEach_NoGuard(s, indices) ==
    IF s.err \/ indices = <<>> THEN s
    ELSE DeleteEach_NoGuard([s EXCEPT !.blocks = SpliceRemove(@, Head(indices))],
                            Tail(indices))

\* the body of deleteSelectedBlocks' indices.forEach
RECURSIVE DeleteEach(_, _)
DeleteEach(s, indices) ==
    IF s.err \/ indices = <<>> THEN s
    ELSE LET index == Head(indices)
         IN IF Len(s.blocks) > 1
            THEN DeleteEach([s EXCEPT !.blocks = SpliceRemove(@, index)],
                            Tail(indices))
            ELSE IF Len(s.blocks) = 0 THEN Throw(s)
            ELSE DeleteEach([s EXCEPT !.blocks[1] = <<>>], Tail(indices))

\* variant: the bulk delete only schedules the debounced write
deleteSelectedBlocks_Debounced(s) ==
    IF s.err THEN s
    ELSE IF s.selectedBlocks = {} THEN s
    ELSE LET s1 == DeleteEach(s, SortDescending(s.selectedBlocks))
             s2 == IF s1.err THEN s1 ELSE [s1 EXCEPT !.selectedBlocks = {}]
         IN debouncedSave(renderAllBlocks(s2))

\* Editor.deleteSelectedBlocks
deleteSelectedBlocks(s) ==
    IF s.err THEN s
    ELSE IF s.selectedBlocks = {} THEN s
    ELSE LET s1 == DeleteEach(s, SortDescending(s.selectedBlocks))
             s2 == IF s1.err THEN s1 ELSE [s1 EXCEPT !.selectedBlocks = {}]
         IN save(renderAllBlocks(s2))

\* variant: leaving edit mode only schedules the debounced write
finishEditing_Debounced(s) ==
    IF s.err THEN s
    ELSE IF s.currentBlockIndex < 0 THEN s
    ELSE LET index == s.currentBlockIndex
             s1 == [s EXCEPT !.currentBlockIndex = -1]
             s2 == IF index < Len(s1.blocks) /\ index < s1.domBlocks
                   THEN [s1 EXCEPT !.inputs =
                            [i \in DOMAIN s1.inputs \ {index} |-> s1.inputs[i]]]
                   ELSE s1
         IN debouncedSave(s2)

\* variant: finishEditing persists even when no block is in edit mode
finishEditing_NoGuard(s) ==
    IF s.err THEN s
    ELSE LET index == s.currentBlockIndex
             s1 == [s EXCEPT !.currentBlockIndex = -1]
             s2 == IF index >= 0 /\ index < Len(s1.blocks) /\ index < s1.domBlocks
                   THEN [s1 EXCEPT !.inputs =
                            [i \in DOMAIN s1.inputs \ {index} |-> s1.inputs[i]]]
                   ELSE s1
         IN save(s2)

\* Editor.finishEditing
finishEditing(s) ==
    IF s.err THEN s
    ELSE IF s.currentBlockIndex < 0 THEN s
    ELSE LET index == s.currentBlockIndex
             s1 == [s EXCEPT !.currentBlockIndex = -1]
             s2 == IF index < Len(s1.blocks) /\ index < s1.domBlocks
                   THEN [s1 EXCEPT !.inputs =
                            [i \in DOMAIN s1.inputs \ {index} |-> s1.inputs[i]]]
                   ELSE s1
         IN save(s2)

\* variant: editBlock does not commit the block in edit mode first
editBlock_NoCommit(s, index) ==
    IF s.err THEN s
    ELSE IF index < 0 \/ index >= Len(s.blocks) THEN s
    ELSE LET s2 == [s EXCEPT !.currentBlockIndex = index]
         IN IF index >= s2.domBlocks THEN s2
            ELSE [s2 EXCEPT !.inputs =
                     [i \in DOMAIN s2.inputs \cup {index} |->
                         IF i = index THEN s2.blocks[index + 1]
                         ELSE s2.inputs[i]]]

\* variant: editBlock checks the range before it commits the block in edit mode
editBlock_CheckFirst(s, index) ==
    IF s.err THEN s
    ELSE IF index < 0 \/ index >= Len(s.blocks) THEN s
    ELSE LET s1 == finishEditing(s)
             s2 == [s1 EXCEPT !.currentBlockIndex = index]
         IN IF index >= s2.domBlocks THEN s2
            ELSE [s2 EXCEPT !.inputs =
                     [i \in DOMAIN s2.inputs \cup {index} |->
                         IF i = index THEN s2.blocks[index + 1]
                         ELSE s2.inputs[i]]]

\* Editor.editBlock
editBlock(s, index) ==
    IF s.err THEN s
    ELSE LET s1 == finishEditing(s)
         IN IF index < 0 \/ index >= Len(s1.blocks) THEN s1
            ELSE LET s2 == [s1 EXCEPT !.currentBlockIndex = index]
                 IN IF index >= s2.domBlocks THEN s2
                    ELSE [s2 EXCEPT !.inputs =
                             [i \in DOMAIN s2.inputs \cup {index} |->
                                 IF i = index THEN s2.blocks[index + 1]
                                 ELSE s2.inputs[i]]]

\* variant: the new block is pushed at the end whatever atIndex is
addBlock_Push(s, atIndex, content) ==
    IF s.err THEN s
    ELSE debouncedSave(renderAllBlocks([s EXCEPT !.blocks = Append(@, content)]))

\* Editor.addBlock
addBlock(s, atIndex, content) ==
    IF s.err THEN s
    ELSE debouncedSave(renderAllBlocks(
             [s EXCEPT !.blocks = SpliceInsert(@, atIndex, content)]))

\* variant: the only block is spliced out like any other
deleteBlock_NoGuard(s, index) ==
    IF s.err THEN s
    ELSE debouncedSave(renderAllBlocks(
             [s EXCEPT !.blocks = SpliceRemove(@, index)]))

\* Editor.deleteBlock
deleteBlock(s, index) ==
    IF s.err THEN s
    ELSE IF Len(s.blocks) <= 1
    THEN IF Len(s.blocks) = 0 THEN Throw(s)
         ELSE renderAllBlocks([s EXCEPT !.blocks[1] = <<>>])
    ELSE debouncedSave(renderAllBlocks(
             [s EXCEPT !.blocks = SpliceRemove(@, index)]))

\* Editor.clear
clear(s) ==
    IF s.err THEN s
    ELSE [s EXCEPT !.titleInput = "", !.blocks = <<>>, !.inputs = NoInputs,
                   !.domBlocks = 0, !.currentBlockIndex = -1]

\* variant: loadPage leaves the title input as it was
loadPage_KeepsTitle(s, page) ==
    IF s.err THEN s
    ELSE renderAllBlocks(
             [s EXCEPT !.blocks = Deserialize(page.content),
                       !.selectedBlocks = {},
                       !.inputs = NoInputs, !.domBlocks = 0])

\* Editor.loadPage
loadPage(s, page) ==
    IF s.err THEN s
    ELSE renderAllBlocks(
             [s EXCEPT !.titleInput = page.title,
                       !.blocks = Deserialize(page.content),
                       !.selectedBlocks = {},
                       !.inputs = NoInputs, !.domBlocks = 0])

\* Editor.insertAtCursor
insertAtCursor(s, text) ==
    IF s.err THEN s
    ELSE LET s1 ==
             IF s.currentBlockIndex >= 0
             THEN IF s.currentBlockIndex >= Len(s.blocks) THEN Throw(s)
                  ELSE LET s2 == finishEditing(
                                   [s EXCEPT !.blocks[s.currentBlockIndex + 1] =
                                                 @ \o text])
                       IN editBlock(s2, s2.currentBlockIndex)
             ELSE IF Len(s.blocks) > 0
             THEN renderAllBlocks([s EXCEPT !.blocks[Len(s.blocks)] = @ \o text])
             ELSE addBlock(s, 0, text)
         IN debouncedSave(s1)

\* ---------------------------------------------------------------------- App
\* variant: a pending debounced write is flushed before the page is left
openPage_Flush(s, pageId) ==
    IF s.err THEN s
    ELSE IF pageId \notin DOMAIN s.store THEN s
    ELSE LET s1 == IF s.saveTimers > 0 THEN save(s) ELSE s
         IN loadPage([s1 EXCEPT !.currentPageId = pageId], s1.store[pageId])

\* App.openPage
openPage(s, pageId) ==
    IF s.err THEN s
    ELSE IF pageId \notin DOMAIN s.store THEN s
    ELSE loadPage([s EXCEPT !.currentPageId = pageId], s.store[pageId])

\* App.closePage
closePage(s) ==
    IF s.err THEN s
    ELSE clear([s EXCEPT !.currentPageId = None])

\* ------------------------------------------------------------ event handlers
Op(name, index, pos) == [op |-> name, index |-> index, pos |-> pos]

NoRun == [keys |-> 0, writes |-> 0]

\* bookkeeping of a handler that is not a content keystroke
Other(name, index, pos) ==
    /\ steps < MaxSteps
    /\ steps' = steps + 1
    /\ lastOp' = Op(name, index, pos)
    /\ run' = NoRun
    /\ UNCHANGED <<blurTimers, sideVars>>

\* loadPage shows #editorWrapper and clear hides it (editor.js:101-102, 475-476),
\* and they run only from App.openPage and App.closePage: the block editor and
\* the title input take events exactly while App.currentPageId is set
PageOpen == currentPageId # None

\* the texts one keystroke can turn t into
Edits(t) ==
    {SubSeq(t, 1, p) \o <<c>> \o SubSeq(t, p + 1, Len(t)) :
        c \in IF Len(t) < MaxLen THEN Chars ELSE {}, p \in 0..Len(t)}
    \cup {SubSeq(t, 1, p - 1) \o SubSeq(t, p + 1, Len(t)) : p \in 1..Len(t)}

\* variant: every keystroke is written at once
onInput_SaveNow(s, index, value) ==
    save([s EXCEPT !.inputs[index] = value,
                   !.blocks[index + 1] = value])

\* the textarea's 'input' listener of editBlock.  Its closure's block is the
\* object at blocks[index]: every change of the array is followed by
\* renderAllBlocks, which removes the textarea (see InputSync)
onInput(s, index, value) ==
    debouncedSave([s EXCEPT !.inputs[index] = value,
                            !.blocks[index + 1] = value])

\* variant: the split does not truncate the block to the text before the cursor
onEnter_NoTruncate(s, index, selectionStart) ==
    LET value == s.inputs[index]
    IN editBlock(addBlock(finishEditing(s), index + 1,
                          IF selectionStart = Len(value) THEN <<>>
                          ELSE AfterCursor(value, selectionStart)),
                 index + 1)

\* the textarea's 'keydown' listener of editBlock, Enter without Shift
onEnter(s, index, selectionStart) ==
    LET value == s.inputs[index]
        cursorAtEnd == selectionStart = Len(value)
    IN IF cursorAtEnd
       THEN editBlock(addBlock(finishEditing(s), index + 1, <<>>), index + 1)
       ELSE LET s1 == [s EXCEPT !.blocks[index + 1] =
                                    BeforeCursor(value, selectionStart)]
            IN editBlock(addBlock(finishEditing(s1), index + 1,
                                  AfterCursor(value, selectionStart)),
                         index + 1)

\* variant: after the removal the same index is edited, not the previous one
onBackspaceEmpty_SameIndex(s, index) == editBlock(deleteBlock(s, index), index)

\* the 'keydown' listener, Backspace in an empty block that is not the first
onBackspaceEmpty(s, index) == editBlock(deleteBlock(s, index), index - 1)

\* variant: Backspace joins the block's text onto the previous block
onBackspaceText_Merge(s, index) ==
    IF index > 0 /\ index < Len(s.blocks)
    THEN renderAllBlocks(
             [s EXCEPT !.blocks = SpliceRemove(
                           [@ EXCEPT ![index] = @ \o s.blocks[index + 1]], index)])
    ELSE s

\* the 'keydown' listener, Backspace in a block with text or in block 0: no
\* branch of the handler applies (the key's default action is the browser's)
onBackspaceText(s, index) == s

\* the 'keydown' listener, ArrowUp with the cursor at the start
onArrowUp(s, index) ==
    IF index > 0 THEN editBlock(finishEditing(s), index - 1) ELSE s

\* variant: ArrowDown moves on also from the last block
onArrowDown_NoBound(s, index) == editBlock(finishEditing(s), index + 1)

\* the 'keydown' listener, ArrowDown with the cursor at the end
onArrowDown(s, index) ==
    IF index < Len(s.blocks) - 1 THEN editBlock(finishEditing(s), index + 1)
    ELSE s

\* the 'keydown' listener, Escape
onEscape(s) == finishEditing(s)

\* the callback of the blur listener's setTimeout
onBlurTimer(s, index) ==
    IF s.currentBlockIndex = index THEN finishEditing(s) ELSE s

\* the placeholder's click listener of renderAllBlocks
onPlaceholderClick(s) ==
    LET s1 == addBlock(s, Len(s.blocks), <<>>)
    IN editBlock(s1, Len(s1.blocks) - 1)

\* the title input's 'keydown' listener of bindEvents, Enter
onTitleEnter(s) ==
    editBlock(IF Len(s.blocks) = 0 THEN addBlock(s, 0, <<>>) ELSE s, 0)

\* the title input's 'input' listener of bindEvents
onTitleInput(s, value) == debouncedSave([s EXCEPT !.titleInput = value])

\* Sidebar.deleteItem('page', id), confirmed
deleteItem(s, id) ==
    LET s1 == deletePage(s, id)
    IN IF s1.currentPageId = id THEN closePage(s1) ELSE s1

OpenPage(p) ==
    /\ p \in DOMAIN store
    /\ Becomes(openPage(St, p))
    /\ Other("openPage", -1, -1)

DeletePage(p) ==
    /\ p \in DOMAIN store
    /\ Becomes(deleteItem(St, p))
    /\ Other("deletePage", -1, -1)

ClickBlock(i) ==
    /\ PageOpen /\ i \in 0..(domBlocks - 1) /\ i \notin DOMAIN inputs
    /\ Becomes(editBlock(St, i))
    /\ Other("editBlock", i, -1)

ClickDelete(i) ==
    /\ PageOpen /\ i \in 0..(domBlocks - 1)
    /\ Becomes(deleteBlock(St, i))
    /\ Other("deleteBlock", i, -1)

ToggleCheckbox(i) ==
    /\ PageOpen /\ i \in 0..(domBlocks - 1)
    /\ Becomes(toggleBlockSelection(St, i, i \notin selectedBlocks))
    /\ Other("toggleBlockSelection", i, -1)

ClickDeleteSelected ==
    /\ PageOpen /\ selectedBlocks # {}
    /\ Becomes(deleteSelectedBlocks(St))
    /\ Other("deleteSelectedBlocks", -1, -1)

ClickPlaceholder ==
    /\ PageOpen /\ Len(blocks) < MaxBlocks
    /\ Becomes(onPlaceholderClick(St))
    /\ Other("addBlock", Len(blocks), -1)

TitleEnter ==
    /\ PageOpen
    /\ Becomes(onTitleEnter(St))
    /\ Other("titleEnter", -1, -1)

TitleInput(v) ==
    /\ PageOpen /\ v # titleInput
    /\ Becomes(onTitleInput(St, v))
    /\ Other("titleInput", -1, -1)

Type(i, v) ==
    /\ i \in DOMAIN inputs /\ v \in Edits(inputs[i])
    /\ steps < MaxSteps
    /\ Becomes(onInput(St, i, v))
    /\ lastOp' = Op("input", i, -1)
    /\ run' = IF run.keys >= 1 /\ run.writes = 0
              THEN [run EXCEPT !.keys = IF @ < 2 THEN @ + 1 ELSE @]
              ELSE [keys |-> 1, writes |-> 0]
    /\ steps' = steps + 1
    /\ UNCHANGED <<blurTimers, sideVars>>

KeyEnter(i, p) ==
    /\ i \in DOMAIN inputs /\ p \in 0..Len(inputs[i]) /\ Len(blocks) < MaxBlocks
    /\ Becomes(onEnter(St, i, p))
    /\ Other("Enter", i, p)

KeyBackspaceEmpty(i) ==
    /\ i \in DOMAIN inputs /\ inputs[i] = <<>> /\ i > 0
    /\ Becomes(onBackspaceEmpty(St, i))
    /\ Other("Backspace", i, 0)

KeyBackspaceText(i) ==
    /\ i \in DOMAIN inputs /\ ~(inputs[i] = <<>> /\ i > 0)
    /\ Becomes(onBackspaceText(St, i))
    /\ Other("BackspaceText", i, -1)

KeyArrowUp(i) ==
    /\ i \in DOMAIN inputs
    /\ Becomes(onArrowUp(St, i))
    /\ Other("ArrowUp", i, 0)

KeyArrowDown(i) ==
    /\ i \in DOMAIN inputs
    /\ Becomes(onArrowDown(St, i))
    /\ Other("ArrowDown", i, Len(inputs[i]))

KeyEscape(i) ==
    /\ i \in DOMAIN inputs
    /\ Becomes(onEscape(St))
    /\ Other("Escape", i, -1)

InsertAtCursor(text) ==
    /\ \/ currentBlockIndex < 0 /\ blocks = <<>>
       \/ currentBlockIndex < 0 /\ blocks # <<>>
             /\ Len(blocks[Len(blocks)]) + Len(text) <= MaxLen
       \/ currentBlockIndex >= Len(blocks)
       \/ currentBlockIndex >= 0 /\ currentBlockIndex < Len(blocks)
             /\ Len(blocks[currentBlockIndex + 1]) + Len(text) <= MaxLen
    /\ Becomes(insertAtCursor(St, text))
    /\ Other("insertAtCursor", currentBlockIndex, -1)

\* the textarea loses focus: its 'blur' listener schedules the 100ms timer
Blur(i) ==
    /\ i \in DOMAIN inputs
    /\ steps < MaxSteps
    /\ steps' = steps + 1
    /\ blurTimers' = [j \in DOMAIN blurTimers \cup {i} |->
                         IF j \in DOMAIN blurTimers
                         THEN blurTimers[j] + (IF j = i THEN 1 ELSE 0)
                         ELSE 1]
    /\ lastOp' = Op("blur", i, -1)
    /\ run' = NoRun
    /\ nwrites' = 0 /\ err' = FALSE
    /\ UNCHANGED <<blocks, currentBlockIndex, selectedBlocks, saveTimeout,
                   saveTimers, inputs, domBlocks, titleInput, currentPageId,
                   store, sideVars>>

BlurTimerFire(i) ==
    /\ i \in DOMAIN blurTimers
    /\ blurTimers' = [j \in {k \in DOMAIN blurTimers :
                                 k # i \/ blurTimers[k] > 1} |->
                         IF j = i THEN blurTimers[j] - 1 ELSE blurTimers[j]]
    /\ Becomes(onBlurTimer(St, i))
    /\ steps < MaxSteps
    /\ steps' = steps + 1
    /\ lastOp' = Op("blurTimer", i, -1)
    /\ run' = NoRun
    /\ UNCHANGED sideVars

\* a scheduled debounce timer fires: the setTimeout callback of debouncedSave
SaveTimerFire ==
    /\ saveTimers > 0
    /\ steps < MaxSteps
    /\ steps' = steps + 1
    /\ \E handle \in {TRUE, FALSE} :
          /\ handle => saveTimeout = "live"
          /\ ~handle => saveTimers > (IF saveTimeout = "live" THEN 1 ELSE 0)
          /\ Becomes(save([St EXCEPT !.saveTimers = @ - 1,
                                     !.saveTimeout = IF handle THEN "fired" ELSE @]))
    /\ lastOp' = Op("saveTimer", -1, -1)
    /\ run' = IF run.keys >= 1
              THEN [run EXCEPT !.writes = IF @ + nwrites' < 2 THEN @ + nwrites' ELSE 2]
              ELSE run
    /\ UNCHANGED <<blurTimers, sideVars>>

\* ------------------------------------------------------------ specification
NoRT == <<>>

\* the link harness at rest
NoLinks ==
    /\ lkPages = <<>> /\ lkArg = None /\ lkOut = None
    /\ lkPc = "idle" /\ lkEdits = 0

\* no smart actions panel, no LLM request in flight
NoAI == panelShown = FALSE /\ llmAction = "none" /\ llmPage = None

\* Sidebar's parentId / folderId of an item at root (null)
NoFolder == 0

\* the folder harness at rest: no folders, no pages, no call made
NoFolders ==
    /\ fdFolders = <<>> /\ fdPages = <<>> /\ fdNextId = 1
    /\ fdLast = [op |-> "none", id |-> NoFolder, folders |-> <<>>, pages |-> <<>>]

\* Voice.startSpeechRecognition has just started the recognizer
NoVoice ==
    /\ vcFinal = <<>> /\ vcResults = <<>> /\ vcDelivered = <<>>
    /\ vcPc = "listening"

\* no rename callback pending (Sidebar.pendingInputCallback = null)
NoRename == [id |-> None, page |-> [title |-> "", content |-> <<>>]]

NoAux == NoFolders /\ NoVoice /\ rnDlg = NoRename

\* the Editor and App objects as constructed, over the pages found in storage
Constructed(pages) ==
    [blocks |-> <<>>, currentBlockIndex |-> -1, selectedBlocks |-> {},
     saveTimeout |-> "null", saveTimers |-> 0, inputs |-> NoInputs,
     domBlocks |-> 0, titleInput |-> "", currentPageId |-> None,
     store |-> pages, nwrites |-> 0, err |-> FALSE]

\* App.init: opens the most recently updated page (here "A") when pages exist
init(pages) ==
    IF DOMAIN pages # {} THEN openPage(Constructed(pages), "A")
    ELSE Constructed(pages)

InitEditor(pages) ==
    LET s == init(pages)
    IN /\ blocks = s.blocks
       /\ currentBlockIndex = s.currentBlockIndex
       /\ selectedBlocks = s.selectedBlocks
       /\ saveTimeout = s.saveTimeout
       /\ saveTimers = s.saveTimers
       /\ inputs = s.inputs
       /\ domBlocks = s.domBlocks
       /\ titleInput = s.titleInput
       /\ currentPageId = s.currentPageId
       /\ store = s.store
       /\ nwrites = s.nwrites
       /\ err = s.err
       /\ blurTimers = [i \in {} |-> 0]
       /\ steps = 0
       /\ run = NoRun
       /\ lastOp = Op("init", -1, -1)

Init ==
    /\ \E c \in InitContents :
          InitEditor([p \in Pages |-> [title |-> p,
                        content |-> IF p = "A" THEN c ELSE OtherContent]])
    /\ rtDoc = NoRT /\ rtText = NoRT /\ rtOut = NoRT /\ rtPc = "idle"
    /\ NoLinks /\ NoAI /\ NoAux

Next ==
    \/ \E p \in Pages : OpenPage(p)
    \/ \E p \in Pages : DeletePage(p)
    \/ \E i \in 0..(MaxBlocks - 1) : ClickBlock(i)
    \/ \E i \in 0..(MaxBlocks - 1) : ClickDelete(i)
    \/ \E i \in 0..(MaxBlocks - 1) : ToggleCheckbox(i)
    \/ ClickDeleteSelected
    \/ ClickPlaceholder
    \/ TitleEnter
    \/ \E v \in TitleValues : TitleInput(v)
    \/ \E i \in DOMAIN inputs : \E v \in Edits(inputs[i]) : Type(i, v)
    \/ \E i \in DOMAIN inputs : \E p \in 0..Len(inputs[i]) : KeyEnter(i, p)
    \/ \E i \in DOMAIN inputs : KeyBackspaceEmpty(i)
    \/ \E i \in DOMAIN inputs : KeyBackspaceText(i)
    \/ \E i \in DOMAIN inputs : KeyArrowUp(i)
    \/ \E i \in DOMAIN inputs : KeyArrowDown(i)
    \/ \E i \in DOMAIN inputs : KeyEscape(i)
    \/ \E text \in InsertTexts : InsertAtCursor(text)
    \/ \E i \in DOMAIN inputs : Blur(i)
    \/ \E i \in DOMAIN blurTimers : BlurTimerFire(i)
    \/ SaveTimerFire

Spec == Init /\ [][Next]_vars

\* ------------------------------------------------ round-trip specification
RECURSIVE TextsUpTo(_, _)
TextsUpTo(cs, n) ==
    IF n = 0 THEN {<<>>}
    ELSE LET shorter == TextsUpTo(cs, n - 1)
         IN shorter \cup {Append(t, c) : t \in shorter, c \in cs}

RECURSIVE DocsUpTo(_, _)
DocsUpTo(ts, n) ==
    IF n = 1 THEN {<<t>> : t \in ts}
    ELSE LET shorter == DocsUpTo(ts, n - 1)
         IN shorter \cup {Append(d, t) : d \in shorter, t \in ts}

\* a block content without leading/trailing whitespace and without "\n\n"
CleanText(t) ==
    /\ Trim(t) = t
    /\ \A k \in 1..(Len(t) - 1) : ~(t[k] = "\n" /\ t[k + 1] = "\n")

CleanTexts == {t \in TextsUpTo(RTChars, RTMaxLen) : CleanText(t)}

InitRT ==
    /\ InitEditor([p \in {} |-> [title |-> "", content |-> <<>>]])
    /\ rtDoc \in DocsUpTo(CleanTexts, RTMaxBlocks)
    /\ rtText = NoRT /\ rtOut = NoRT /\ rtPc = "start"
    /\ NoLinks /\ NoAI /\ NoAux

RTSerialize ==
    /\ rtPc = "start"
    /\ rtText' = Serialize(rtDoc)
    /\ rtPc' = "serialized"
    /\ UNCHANGED <<edVars, histVars, rtDoc, rtOut, lkVars, aiVars, auxVars>>

RTDeserialize ==
    /\ rtPc = "serialized"
    /\ rtOut' = Deserialize(rtText)
    /\ rtPc' = "done"
    /\ UNCHANGED <<edVars, histVars, rtDoc, rtText, lkVars, aiVars, auxVars>>

NextRT == RTSerialize \/ RTDeserialize

SpecRT == InitRT /\ [][NextRT]_vars

\* ---- loadPage's parsing applied to every text over RTChars up to RTMaxLen
InitDS ==
    /\ InitEditor([p \in {} |-> [title |-> "", content |-> <<>>]])
    /\ rtDoc = NoRT
    /\ rtText \in TextsUpTo(RTChars, RTMaxLen)
    /\ rtOut = NoRT /\ rtPc = "serialized"
    /\ NoLinks /\ NoAI /\ NoAux

NextDS == RTDeserialize

SpecDS == InitDS /\ [][NextDS]_vars

\* -------------------------------------------------------------------- LLM
\* the marker `> **... Summary:**` that starts a summary block, as one token
SummaryMark == "> **Summary:**"

\* what callLLM resolves to: a trimmed, non-empty text
AIResults == { <<"b">>, <<"a", "\n", "\n", "b">> }

\* the keys of LLM.smartActions: 'summarize' inserts, every other key replaces
ActionKeys == {"summarize", "format"}

\* Editor.getContent
getContent(s) == JoinWith(s.blocks, <<"\n", "\n">>)

\* LLM.insertSummary
insertSummary(s, summary) ==
    IF s.err THEN s
    ELSE LET summaryBlock == <<SummaryMark, " ">> \o summary
             s1 == IF Len(s.blocks) > 0
                   THEN IF Len(s.blocks[1]) >= 1 /\ s.blocks[1][1] = SummaryMark
                        THEN [s EXCEPT !.blocks[1] = summaryBlock]
                        ELSE [s EXCEPT !.blocks = <<summaryBlock>> \o @]
                   ELSE [s EXCEPT !.blocks = Append(@, summaryBlock)]
         IN save(renderAllBlocks(s1))

\* the for loop of replaceContent
RECURSIVE ReplaceLines(_, _, _, _)
ReplaceLines(lines, i, currentBlock, acc) ==
    IF i > Len(lines) THEN [blocks |-> acc, currentBlock |-> currentBlock]
    ELSE LET line == lines[i]
         IN IF Trim(line) = <<>> /\ currentBlock # <<>>
            THEN ReplaceLines(lines, i + 1, <<>>,
                              Append(acc, JoinWith(currentBlock, <<"\n">>)))
            ELSE IF Trim(line) # <<>>
            THEN ReplaceLines(lines, i + 1, Append(currentBlock, line), acc)
            ELSE ReplaceLines(lines, i + 1, currentBlock, acc)

\* variant: the lines after the last blank line are dropped, with no fallback
replaceContent_NoTail(s, newContent) ==
    IF s.err THEN s
    ELSE LET r == ReplaceLines(SplitLines(newContent), 1, <<>>, <<>>)
         IN save(renderAllBlocks([s EXCEPT !.blocks = r.blocks]))

\* LLM.replaceContent
replaceContent(s, newContent) ==
    IF s.err THEN s
    ELSE LET r == ReplaceLines(SplitLines(newContent), 1, <<>>, <<>>)
             b1 == IF r.currentBlock # <<>>
                   THEN Append(r.blocks, JoinWith(r.currentBlock, <<"\n">>))
                   ELSE r.blocks
             b2 == IF Len(b1) = 0 THEN <<newContent>> ELSE b1
         IN save(renderAllBlocks([s EXCEPT !.blocks = b2]))

\* bookkeeping of a handler of the LLM module
AIStep(name) ==
    /\ steps < MaxSteps
    /\ steps' = steps + 1
    /\ lastOp' = Op(name, -1, -1)
    /\ run' = NoRun
    /\ UNCHANGED <<blurTimers, rtVars, lkVars, auxVars>>

\* LLM.showSmartActions with an API key configured
ShowSmartActions ==
    /\ PageOpen
    /\ Len(Trim(getContent(St))) >= 5
    /\ Becomes(St)
    /\ panelShown' = TRUE
    /\ UNCHANGED <<llmAction, llmPage>>
    /\ AIStep("showSmartActions")

\* LLM.executeAction up to its await: one request is in flight at a time
ExecuteAction(actionKey) ==
    /\ panelShown
    /\ llmAction = "none"
    /\ Becomes(St)
    /\ llmAction' = actionKey
    /\ llmPage' = currentPageId
    /\ UNCHANGED panelShown
    /\ AIStep("executeAction")

\* LLM.executeAction after its await, callLLM resolved to a non-empty result
LLMResult(result) ==
    /\ llmAction # "none"
    /\ llmAction = "summarize" =>
          (Len(blocks) < MaxBlocks
             \/ (Len(blocks) > 0 /\ Len(blocks[1]) >= 1 /\ blocks[1][1] = SummaryMark))
    /\ Becomes(IF llmAction = "summarize" THEN insertSummary(St, result)
               ELSE replaceContent(St, result))
    /\ panelShown' = FALSE
    /\ llmAction' = "none"
    /\ llmPage' = None
    /\ AIStep(IF llmAction = "summarize" THEN "insertSummary" ELSE "replaceContent")

\* LLM.executeAction after its await, callLLM rejected or resolved to ''
LLMError ==
    /\ llmAction # "none"
    /\ Becomes(St)
    /\ llmAction' = "none"
    /\ llmPage' = None
    /\ UNCHANGED panelShown
    /\ AIStep("llmError")

NextAI ==
    \/ Next
    \/ ShowSmartActions
    \/ \E actionKey \in ActionKeys : ExecuteAction(actionKey)
    \/ \E result \in AIResults : LLMResult(result)
    \/ LLMError

SpecAI == Init /\ [][NextAI]_vars

\* ------------------------------------------------------------------ links
MaxLkPages == 3
MaxLkEdits == 1

\* the null of findPageByTitle (page ids are 1, 2, ...)
NoPage == 0

\* String.prototype.toLowerCase on the characters used here
LowerChar(c) == IF c = "T" THEN "t" ELSE c

toLowerCase(t) == [k \in 1..Len(t) |-> LowerChar(t[k])]

\* the text `[[${pageTitle}]]`
WikiLink(title) == <<"[", "[">> \o title \o <<"]", "]">>

LkTitles == { <<"t">>, <<"T", " ">>, <<"u">> }
LkContents == { <<>>, WikiLink(<<"t">>), WikiLink(<<"T">>), WikiLink(<<"u">>) }
LkNames == { <<"t">>, <<" ", "T">>, <<"u">>, <<"x">> }

\* the stores of n pages, in insertion order; a page's id is its position
RECURSIVE LkStores(_)
LkStores(n) ==
    IF n = 0 THEN {<<>>}
    ELSE LET shorter == LkStores(n - 1)
         IN shorter \cup
            {Append(ps, [id |-> Len(ps) + 1, title |-> t, content |-> c]) :
                ps \in {q \in shorter : Len(q) = n - 1},
                t \in LkTitles, c \in LkContents}

\* the literal pattern matches text at the 0-based position k, ignoring case
MatchesAt(pattern, text, k) ==
    /\ k + Len(pattern) <= Len(text)
    /\ \A j \in 1..Len(pattern) : LowerChar(text[k + j]) = LowerChar(pattern[j])

SetMin(S) == CHOOSE x \in S : \A y \in S : x <= y

\* RegExp.prototype.test of a pattern with the flags 'gi': the search starts
\* at lastIndex, a match moves lastIndex behind it, a failure resets it to 0
RegexTest(pattern, text, lastIndex) ==
    LET ks == {k \in lastIndex..Len(text) : MatchesAt(pattern, text, k)}
    IN IF ks = {} THEN [result |-> FALSE, lastIndex |-> 0]
       ELSE [result |-> TRUE, lastIndex |-> SetMin(ks) + Len(pattern)]

\* the filter callback of getBacklinks, applied to the pages in order; the one
\* RegExp object keeps its lastIndex from one page to the next
RECURSIVE FilterBacklinks(_, _, _, _, _, _)
FilterBacklinks(pages, i, pageId, pattern, lastIndex, acc) ==
    IF i > Len(pages) THEN acc
    ELSE IF pages[i].id = pageId
    THEN FilterBacklinks(pages, i + 1, pageId, pattern, lastIndex, acc)
    ELSE LET r == RegexTest(pattern, pages[i].content, lastIndex)
         IN FilterBacklinks(pages, i + 1, pageId, pattern, r.lastIndex,
                IF r.result THEN Append(acc, pages[i].id) ELSE acc)

\* Storage.getBacklinks: the ids of the pages it returns, in order
getBacklinks(pages, pageId) ==
    IF \A i \in 1..Len(pages) : pages[i].id # pageId THEN <<>>
    ELSE LET targetPage == pages[CHOOSE i \in 1..Len(pages) : pages[i].id = pageId]
         IN FilterBacklinks(pages, 1, pageId, WikiLink(targetPage.title), 0, <<>>)

\* variant: the titles are compared without trimming
findPageByTitle_NoTrim(pages, title) ==
    LET lowerTitle == toLowerCase(title)
        hits == {i \in 1..Len(pages) : toLowerCase(pages[i].title) = lowerTitle}
    IN IF hits = {} THEN NoPage ELSE pages[SetMin(hits)].id

\* Linking.findPageByTitle: the id of the page it returns, NoPage for null
findPageByTitle(pages, title) ==
    LET lowerTitle == Trim(toLowerCase(title))
        hits == {i \in 1..Len(pages) :
                    Trim(toLowerCase(pages[i].title)) = lowerTitle}
    IN IF hits = {} THEN NoPage ELSE pages[SetMin(hits)].id

InitLinks ==
    /\ InitEditor([p \in {} |-> [title |-> "", content |-> <<>>]])
    /\ rtDoc = NoRT /\ rtText = NoRT /\ rtOut = NoRT /\ rtPc = "idle"
    /\ NoAI /\ NoAux
    /\ lkPages \in LkStores(MaxLkPages)
    /\ lkArg = None /\ lkOut = None /\ lkPc = "idle" /\ lkEdits = 0

\* Linking.updateBacklinks(pageId) calls Storage.getBacklinks(pageId)
LkGetBacklinks(pageId) ==
    /\ lkPc = "idle"
    /\ lkArg' = pageId
    /\ lkOut' = getBacklinks(lkPages, pageId)
    /\ lkPc' = "backlinks"
    /\ UNCHANGED <<edVars, histVars, rtVars, aiVars, auxVars, lkPages, lkEdits>>

\* Linking.processLinks resolves a [[pageName]] with findPageByTitle
LkFindPageByTitle(name) ==
    /\ lkPc = "idle"
    /\ lkArg' = name
    /\ lkOut' = findPageByTitle(lkPages, name)
    /\ lkPc' = "found"
    /\ UNCHANGED <<edVars, histVars, rtVars, aiVars, auxVars, lkPages, lkEdits>>

\* Storage.savePage of an existing page with a new title, between two calls
LkSavePage(i, title) ==
    /\ lkPc # "idle"
    /\ lkEdits < MaxLkEdits
    /\ i \in 1..Len(lkPages)
    /\ lkPages' = [lkPages EXCEPT ![i].title = title]
    /\ lkEdits' = lkEdits + 1
    /\ lkArg' = None /\ lkOut' = None /\ lkPc' = "idle"
    /\ UNCHANGED <<edVars, histVars, rtVars, aiVars, auxVars>>

NextLinks ==
    \/ \E pageId \in 1..(MaxLkPages + 1) : LkGetBacklinks(pageId)
    \/ \E name \in LkNames : LkFindPageByTitle(name)
    \/ \E i \in 1..MaxLkPages : \E t \in LkTitles : LkSavePage(i, t)

SpecLinks == InitLinks /\ [][NextLinks]_vars


\* ------------------------------------------------------ folders (Storage)

\* ids Storage.generateId hands out in one run of the folder harness
MaxFdIds == 4

\* an object without the keys in S (delete obj[k])
Remove(obj, S) == [k \in DOMAIN obj \ S |-> obj[k]]

getChildFolders(folders, parentId) ==
    {f \in DOMAIN folders : folders[f] = parentId}

getPagesByFolder(pages, folderId) ==
    {p \in DOMAIN pages : pages[p] = folderId}

\* Storage.deleteFolder on the two localStorage keys st = [folders, pages].
\* `folders` and `pages` are the objects parsed on entry; the recursive
\* calls read and write localStorage themselves, and the last setItem
\* writes the object parsed on entry, less id.
RECURSIVE deleteFolder(_, _, _), DeleteChildFolders(_, _)
deleteFolder(st, id, deleteContents) ==
    LET folders == st.folders
        pages == st.pages
    IN IF id \notin DOMAIN folders THEN st
       ELSE IF deleteContents
       THEN LET st1 == [st EXCEPT !.pages =
                           Remove(pages, getPagesByFolder(pages, id))]
                st2 == DeleteChildFolders(st1, getChildFolders(folders, id))
            IN [folders |-> Remove(folders, {id}), pages |-> st2.pages]
       ELSE [folders |-> Remove(folders, {id}),
             pages |-> [p \in DOMAIN pages |->
                          IF pages[p] = id THEN NoFolder ELSE pages[p]]]

\* the forEach over Object.values(folders), in insertion order
DeleteChildFolders(st, todo) ==
    IF todo = {} THEN st
    ELSE LET f == SetMin(todo)
         IN DeleteChildFolders(deleteFolder(st, f, TRUE), todo \ {f})

\* following parentId from f reaches root within n links: the folder has an
\* element in the navigation tree, since Sidebar.render starts at
\* getChildFolders(null) and createFolderElement descends
RECURSIVE ReachesRoot(_, _, _)
ReachesRoot(folders, f, n) ==
    IF f = NoFolder THEN TRUE
    ELSE IF n = 0 \/ f \notin DOMAIN folders THEN FALSE
    ELSE ReachesRoot(folders, folders[f], n - 1)

\* following parentId from f reaches a within 1..n links
RECURSIVE HasAncestor(_, _, _, _)
HasAncestor(folders, f, a, n) ==
    /\ n > 0
    /\ f \in DOMAIN folders
    /\ \/ folders[f] = a
       \/ HasAncestor(folders, folders[f], a, n - 1)

Descendants(folders, id) ==
    {f \in DOMAIN folders : HasAncestor(folders, f, id, MaxFdIds)}

FdStep(op, id) ==
    /\ fdLast' = [op |-> op, id |-> id,
                  folders |-> fdFolders, pages |-> fdPages]
    /\ UNCHANGED <<edVars, histVars, rtVars, lkVars, aiVars, vcVars, rnVars>>

\* Sidebar.createNewFolder(): saveFolder of a folder without id, at root
FdCreateNewFolder ==
    /\ fdNextId <= MaxFdIds
    /\ fdFolders' = (fdNextId :> NoFolder) @@ fdFolders
    /\ fdNextId' = fdNextId + 1
    /\ UNCHANGED fdPages
    /\ FdStep("createNewFolder", fdNextId)

\* Sidebar.createNewPage(folderId): the new-page buttons, or a folder's "+"
FdCreateNewPage(folderId) ==
    /\ fdNextId <= MaxFdIds
    /\ folderId = NoFolder \/ folderId \in DOMAIN fdFolders
    /\ ReachesRoot(fdFolders, folderId, MaxFdIds)
    /\ fdPages' = (fdNextId :> folderId) @@ fdPages
    /\ fdNextId' = fdNextId + 1
    /\ UNCHANGED fdFolders
    /\ FdStep("createNewPage", fdNextId)

\* the move dialog of a folder: showMoveModal lists root and every stored
\* folder but the moved one; a click calls moveItem('folder', id, target)
FdMoveFolder(id, targetFolderId) ==
    /\ id \in DOMAIN fdFolders /\ ReachesRoot(fdFolders, id, MaxFdIds)
    /\ targetFolderId = NoFolder
          \/ (targetFolderId \in DOMAIN fdFolders /\ targetFolderId # id)
    /\ fdFolders' = [fdFolders EXCEPT ![id] = targetFolderId]
    /\ UNCHANGED <<fdPages, fdNextId>>
    /\ FdStep("moveFolder", id)

\* the move dialog of a page, or a drop on a folder header
FdMovePage(id, targetFolderId) ==
    /\ id \in DOMAIN fdPages /\ ReachesRoot(fdFolders, fdPages[id], MaxFdIds)
    /\ targetFolderId \in {NoFolder} \cup DOMAIN fdFolders
    /\ fdPages' = [fdPages EXCEPT ![id] = targetFolderId]
    /\ UNCHANGED <<fdFolders, fdNextId>>
    /\ FdStep("movePage", id)

\* Sidebar.deleteItem('folder', id), confirmed: Storage.deleteFolder(id, false)
FdDeleteItem(id) ==
    /\ id \in DOMAIN fdFolders /\ ReachesRoot(fdFolders, id, MaxFdIds)
    /\ LET st == deleteFolder([folders |-> fdFolders, pages |-> fdPages], id, FALSE)
       IN fdFolders' = st.folders /\ fdPages' = st.pages
    /\ UNCHANGED fdNextId
    /\ FdStep("deleteItem", id)

\* Storage.deleteFolder(id, true) that returns: on a folder that is its own
\* ancestor the recursion does not end
FdDeleteFolderContents(id) ==
    /\ id \in DOMAIN fdFolders
    /\ ~HasAncestor(fdFolders, id, id, MaxFdIds)
    /\ LET st == deleteFolder([folders |-> fdFolders, pages |-> fdPages], id, TRUE)
       IN fdFolders' = st.folders /\ fdPages' = st.pages
    /\ UNCHANGED fdNextId
    /\ FdStep("deleteFolder", id)

\* empty localStorage, and a recording just started
InitEmpty ==
    /\ InitEditor([p \in {} |-> [title |-> "", content |-> <<>>]])
    /\ rtDoc = NoRT /\ rtText = NoRT /\ rtOut = NoRT /\ rtPc = "idle"
    /\ NoLinks /\ NoAI /\ NoAux

NextFolders ==
    \/ FdCreateNewFolder
    \/ \E f \in 0..MaxFdIds : FdCreateNewPage(f)
    \/ \E id \in 1..MaxFdIds : \E t \in 0..MaxFdIds : FdMoveFolder(id, t)
    \/ \E id \in 1..MaxFdIds : \E t \in 0..MaxFdIds : FdMovePage(id, t)
    \/ \E id \in 1..MaxFdIds : FdDeleteItem(id)
    \/ \E id \in 1..MaxFdIds : FdDeleteFolderContents(id)

SpecFolders == InitEmpty /\ [][NextFolders]_vars


\* ------------------------------------------------------ speech recognition

\* final results delivered in one recording
MaxVcFinals == 3

\* transcripts of single results
VcWords == {"a", "b"}

\* recognition.onresult: the loop over event.results from index i - 1
RECURSIVE onresult(_, _, _)
onresult(finalTranscripts, results, i) ==
    IF i > Len(results) THEN finalTranscripts
    ELSE onresult(IF results[i].isFinal /\ i - 1 >= Len(finalTranscripts)
                  THEN Append(finalTranscripts, results[i].transcript)
                  ELSE finalTranscripts,
                  results, i + 1)

\* the last result of the session is still interim
VcOpen == vcResults # <<>> /\ ~vcResults[Len(vcResults)].isFinal

\* the recognizer's result list once its current result is t
VcWith(t, isFinal) ==
    LET r == [transcript |-> t, isFinal |-> isFinal]
    IN IF VcOpen THEN [vcResults EXCEPT ![Len(vcResults)] = r]
       ELSE Append(vcResults, r)

\* an onresult event with a new or updated interim result
VcInterim(t) ==
    /\ vcPc = "listening"
    /\ Len(vcDelivered) < MaxVcFinals
    /\ vcResults' = VcWith(t, FALSE)
    /\ vcFinal' = onresult(vcFinal, vcResults', 1)
    /\ UNCHANGED <<vcDelivered, vcPc>>
    /\ UNCHANGED <<edVars, histVars, rtVars, lkVars, aiVars, fdVars, rnVars>>

\* an onresult event in which the current result has become final
VcFinal(t) ==
    /\ vcPc = "listening"
    /\ Len(vcDelivered) < MaxVcFinals
    /\ vcResults' = VcWith(t, TRUE)
    /\ vcDelivered' = Append(vcDelivered, t)
    /\ vcFinal' = onresult(vcFinal, vcResults', 1)
    /\ UNCHANGED vcPc
    /\ UNCHANGED <<edVars, histVars, rtVars, lkVars, aiVars, fdVars, rnVars>>

\* recognition.onend while recording (the recognizer stopped on silence):
\* restartRecognition sets its 100ms timer
VcOnEnd ==
    /\ vcPc = "listening"
    /\ vcPc' = "ended"
    /\ UNCHANGED <<vcFinal, vcResults, vcDelivered>>
    /\ UNCHANGED <<edVars, histVars, rtVars, lkVars, aiVars, fdVars, rnVars>>

\* the timer of restartRecognition: recognition.start() opens a new session,
\* whose result list is empty
VcRestart ==
    /\ vcPc = "ended"
    /\ vcPc' = "listening"
    /\ vcResults' = <<>>
    /\ UNCHANGED <<vcFinal, vcDelivered>>
    /\ UNCHANGED <<edVars, histVars, rtVars, lkVars, aiVars, fdVars, rnVars>>

NextVoice ==
    \/ \E t \in VcWords : VcInterim(t)
    \/ \E t \in VcWords : VcFinal(t)
    \/ VcOnEnd
    \/ VcRestart

SpecVoice == InitEmpty /\ [][NextVoice]_vars


\* ------------------------------------------------------------ page rename

\* names typed into the input modal (confirmInput trims, and needs a value)
RnNames == {"T", "N"}

\* bookkeeping of a handler of the rename dialog
RnStep(name) ==
    /\ steps < MaxSteps
    /\ steps' = steps + 1
    /\ lastOp' = Op(name, -1, -1)
    /\ run' = NoRun
    /\ UNCHANGED <<blurTimers, rtVars, lkVars, aiVars, fdVars, vcVars>>

\* Sidebar.renameItem('page', id): the callback handed to showInputModal
\* closes over the page object read from storage now
RenameItem(id) ==
    /\ id \in DOMAIN store
    /\ Becomes(St)
    /\ rnDlg' = [id |-> id, page |-> store[id]]
    /\ RnStep("renameItem")

\* Sidebar.confirmInput with the rename callback pending
RenameConfirm(newName) ==
    /\ rnDlg.id # None
    /\ LET page == [rnDlg.page EXCEPT !.title = newName]
           s1 == savePage(St, rnDlg.id, page)
       IN Becomes(IF currentPageId = rnDlg.id
                  THEN [s1 EXCEPT !.titleInput = page.title]
                  ELSE s1)
    /\ rnDlg' = NoRename
    /\ RnStep("renameConfirm")

\* Sidebar.hideInputModal: cancel button, Escape or a click on the backdrop
RenameCancel ==
    /\ rnDlg.id # None
    /\ Becomes(St)
    /\ rnDlg' = NoRename
    /\ RnStep("renameCancel")

NextRename ==
    \/ Next
    \/ \E id \in Pages : RenameItem(id)
    \/ \E newName \in RnNames : RenameConfirm(newName)
    \/ RenameCancel

SpecRename == Init /\ [][NextRename]_vars

\* --------------------------------------------------------------- properties
\* a live textarea shows the block it was opened on, and that block is the
\* one being edited
InputSync ==
    \A i \in DOMAIN inputs :
        /\ i < Len(blocks)
        /\ inputs[i] = blocks[i + 1]
        /\ currentBlockIndex = i
        /\ PageOpen

StoredContent == store[currentPageId].content

\* the blocks of bs whose 0-based index is not in sel, in their order
RECURSIVE Unselected(_, _, _)
Unselected(bs, sel, j) ==
    IF j >= Len(bs) THEN <<>>
    ELSE (IF j \in sel THEN <<>> ELSE <<bs[j + 1]>>) \o Unselected(bs, sel, j + 1)

\* C1 (as stated): in every reachable state the block sequence has at least
\* one block.
C1_NeverEmpty == Len(blocks) >= 1

\* C1 (amended): the block sequence is empty only after clear, that is while
\* no page is open, no block is in edit mode and nothing is rendered; whenever
\* a page is open it has at least one block.
C1_EmptyOnlyWhenClosed ==
    Len(blocks) = 0 =>
        /\ ~PageOpen
        /\ currentBlockIndex = -1
        /\ domBlocks = 0
        /\ inputs = NoInputs

C1_Witness ==
    /\ lastOp.op = "deleteSelectedBlocks"
    /\ PageOpen
    /\ blocks = << <<>> >>

\* C2: Enter without Shift at a position p before the end of the edited block
\* i splits it: block i keeps the text before p, a new block i+1 holds the
\* text from p on, the two concatenate to the old text, the other blocks keep
\* content and order, the count grows by one and i+1 is the edit index.
C2_EnterSplits ==
    [][(/\ lastOp'.op = "Enter"
        /\ lastOp'.index \in DOMAIN inputs
        /\ lastOp'.pos < Len(blocks[lastOp'.index + 1]))
       => LET i == lastOp'.index
              p == lastOp'.pos
              t == blocks[i + 1]
          IN /\ Len(blocks') = Len(blocks) + 1
             /\ blocks'[i + 1] = SubSeq(t, 1, p)
             /\ blocks'[i + 2] = SubSeq(t, p + 1, Len(t))
             /\ blocks'[i + 1] \o blocks'[i + 2] = t
             /\ \A j \in 0..(i - 1) : blocks'[j + 1] = blocks[j + 1]
             /\ \A j \in (i + 1)..(Len(blocks) - 1) : blocks'[j + 2] = blocks[j + 1]
             /\ currentBlockIndex' = i + 1]_vars

C2_Witness ==
    /\ lastOp.op = "Enter"
    /\ lastOp.pos = 1
    /\ Len(blocks) >= 3
    /\ blocks[lastOp.index + 1] = <<"a">>
    /\ blocks[lastOp.index + 2] = <<"b">>
    /\ currentBlockIndex = lastOp.index + 1

\* C3: Enter without Shift with the cursor at the end of the edited block i
\* leaves block i unchanged, inserts an empty block at i+1, shifts the later
\* blocks up by one and makes i+1 the edit index.
C3_EnterAtEnd ==
    [][(/\ lastOp'.op = "Enter"
        /\ lastOp'.index \in DOMAIN inputs
        /\ lastOp'.pos = Len(blocks[lastOp'.index + 1]))
       => LET i == lastOp'.index
          IN /\ Len(blocks') = Len(blocks) + 1
             /\ \A j \in 0..i : blocks'[j + 1] = blocks[j + 1]
             /\ blocks'[i + 2] = <<>>
             /\ \A j \in (i + 1)..(Len(blocks) - 1) : blocks'[j + 2] = blocks[j + 1]
             /\ currentBlockIndex' = i + 1]_vars

C3_Witness ==
    /\ lastOp.op = "Enter"
    /\ lastOp.index = 0
    /\ lastOp.pos = 2
    /\ blocks = << <<"a", "b">>, <<>>, <<"b">> >>
    /\ currentBlockIndex = 1

\* C4: Backspace in the edited block i, empty and not the first, removes
\* exactly block i and makes i-1 the edit index.
C4_BackspaceRemovesEmpty ==
    [][lastOp'.op = "Backspace"
       => LET i == lastOp'.index
          IN /\ i > 0 /\ blocks[i + 1] = <<>>
             /\ Len(blocks') = Len(blocks) - 1
             /\ \A j \in 0..(i - 1) : blocks'[j + 1] = blocks[j + 1]
             /\ \A j \in (i + 1)..(Len(blocks) - 1) : blocks'[j] = blocks[j + 1]
             /\ currentBlockIndex' = i - 1]_vars

C4_Witness ==
    /\ lastOp.op = "Backspace"
    /\ lastOp.index = 1
    /\ blocks = << <<"a", "b">>, <<"b">> >>
    /\ currentBlockIndex = 0

\* C5: deleteBlock on a document of exactly one block keeps the block and
\* clears its content.
C5_LastBlockCleared ==
    [][(lastOp'.op = "deleteBlock" /\ Len(blocks) = 1)
       => blocks' = << <<>> >>]_vars

C5_Witness ==
    /\ lastOp.op = "deleteBlock"
    /\ blocks = << <<>> >>
    /\ PageOpen
    /\ StoredContent # <<>>

\* C6: deleteSelectedBlocks with a non-empty proper subset of the valid
\* indices selected leaves exactly the unselected blocks, in order and
\* unchanged, and an empty selection.
C6_DeleteSelected ==
    [][(/\ lastOp'.op = "deleteSelectedBlocks"
        /\ selectedBlocks # {}
        /\ selectedBlocks \subseteq 0..(Len(blocks) - 1)
        /\ selectedBlocks # 0..(Len(blocks) - 1))
       => /\ blocks' = Unselected(blocks, selectedBlocks, 0)
          /\ Len(blocks') = Len(blocks) - Cardinality(selectedBlocks)
          /\ selectedBlocks' = {}]_vars

C6_Witness ==
    /\ lastOp.op = "deleteSelectedBlocks"
    /\ steps = 3
    /\ blocks = << <<"a", "b">> >>
    /\ selectedBlocks = {}

\* C7 (as stated): deserializing the serialization of a document whose blocks
\* have no leading/trailing whitespace and no embedded double newline gives
\* back the same block contents.
C7_RoundTrip == rtPc = "done" => rtOut = rtDoc

\* C7 (amended): the round trip reproduces the block contents when, besides,
\* every block other than the last is non-empty; single newlines inside a
\* block are preserved.
C7_RoundTripNonEmpty ==
    (rtPc = "done" /\ \A k \in 1..(Len(rtDoc) - 1) : rtDoc[k] # <<>>)
        => rtOut = rtDoc

C7_Witness ==
    /\ rtPc = "done"
    /\ rtDoc = << <<"a", "\n", "a">>, <<"a", " ", "a">> >>
    /\ rtText = <<"a", "\n", "a", "\n", "\n", "a", " ", "a">>
    /\ rtOut = rtDoc

\* C8: a run of N >= 1 content keystrokes, each before the previous debounce
\* timer fired and with nothing in between, makes no write while it lasts and
\* leaves exactly one timer pending; when that timer fires after the last
\* keystroke it makes the one write of the run and no timer remains.
C8_DebounceCoalesces ==
    run.keys >= 1 =>
        \/ /\ run.writes = 0
           /\ lastOp.op = "input"
           /\ nwrites = 0
           /\ saveTimers = 1
           /\ saveTimeout = "live"
        \/ /\ run.writes = 1
           /\ lastOp.op = "saveTimer"
           /\ nwrites = 1
           /\ saveTimers = 0
           /\ PageOpen
           /\ StoredContent = Serialize(blocks)

C8_Witness ==
    /\ run.keys = 2
    /\ run.writes = 1
    /\ lastOp.op = "saveTimer"
    /\ StoredContent = Serialize(blocks)

\* C9: finishEditing called while a block is in edit mode sets the edit index
\* to none and writes at once: right after it the stored content of the open
\* page is the blocks joined by "\n\n".  Stated of the Escape handler, which
\* is one call of finishEditing, and of the call made in any reachable state
\* that has a block in edit mode.
C9_FinishEditPersists ==
    /\ lastOp.op = "Escape" =>
          /\ currentBlockIndex = -1
          /\ nwrites = 1
          /\ PageOpen
          /\ StoredContent = Serialize(blocks)
    /\ (currentBlockIndex >= 0 /\ PageOpen) =>
          LET t == finishEditing(St)
          IN /\ t.currentBlockIndex = -1
             /\ t.nwrites = 1
             /\ t.blocks = blocks
             /\ t.store[currentPageId].content = Serialize(blocks)

C9_Witness ==
    /\ lastOp.op = "Escape"
    /\ steps = 3
    /\ currentBlockIndex = -1
    /\ nwrites = 1
    /\ StoredContent = Serialize(blocks)
    /\ StoredContent = <<"a", "b", "\n", "\n", "a", "b">>

C11_NoTimerPendingAfter ==
    lastOp.op \in {"Escape", "addBlock", "deleteBlock", "deleteSelectedBlocks"}
        => saveTimers = 0

\* C11 (amended): none of the four cancels the pending debounced write.
\* finishEditing and deleteSelectedBlocks write at once and leave the timers
\* as they were; addBlock, and deleteBlock when it removes a block, replace
\* the pending timer by a new one; so a keystroke followed by finishEditing
\* is still followed by a write from the timer.
C11_PendingTimerSurvives ==
    /\ lastOp.op = "addBlock" => (saveTimers = 1 /\ saveTimeout = "live")
    /\ currentBlockIndex >= 0 =>
          LET t == finishEditing(St)
          IN t.saveTimers = saveTimers /\ t.saveTimeout = saveTimeout
    /\ selectedBlocks # {} =>
          LET t == deleteSelectedBlocks(St)
          IN t.saveTimers = saveTimers /\ t.saveTimeout = saveTimeout
    /\ \A i \in 0..(Len(blocks) - 1) :
          LET t == deleteBlock(St, i)
          IN IF Len(blocks) > 1
             THEN t.saveTimers = 1 /\ t.saveTimeout = "live"
             ELSE t.saveTimers = saveTimers /\ t.saveTimeout = saveTimeout

C11_Witness ==
    /\ lastOp.op = "Escape"
    /\ nwrites = 1
    /\ saveTimers = 1
    /\ saveTimeout = "live"
    /\ StoredContent = Serialize(blocks)

\* C12: insertAtCursor called while block i is in edit mode appends the text
\* to block i and leaves block i in edit mode.
C12_InsertKeepsEditing ==
    (/\ lastOp.op = "insertAtCursor"
     /\ lastOp.index >= 0
     /\ lastOp.index < Len(blocks)
     /\ ~err)
        => /\ currentBlockIndex = lastOp.index
           /\ \E text \in InsertTexts :
                 LET b == blocks[lastOp.index + 1]
                 IN /\ Len(b) >= Len(text)
                    /\ SubSeq(b, Len(b) - Len(text) + 1, Len(b)) = text

\* C13: editBlock(index) with a valid index first commits the block in edit
\* mode, if any, with an immediate write of the document, and then makes index
\* the edit index; never more than one block is in edit mode.
C13_EditCommitsThenSwitches ==
    [][/\ Cardinality(DOMAIN inputs') <= 1
       /\ lastOp'.op = "editBlock" =>
             /\ currentBlockIndex' = lastOp'.index
             /\ DOMAIN inputs' = {lastOp'.index}
             /\ blocks' = blocks
             /\ IF currentBlockIndex >= 0
                THEN /\ nwrites' = 1
                     /\ store'[currentPageId].content = Serialize(blocks)
                ELSE nwrites' = 0 /\ store' = store]_vars

C13_Witness ==
    /\ lastOp.op = "editBlock"
    /\ lastOp.index = 1
    /\ currentBlockIndex = 1
    /\ DOMAIN inputs = {1}
    /\ nwrites = 1
    /\ steps = 2

\* the indices editBlock rejects
OutOfRange == {-1, Len(blocks), Len(blocks) + 1}

\* C14 (as stated): editBlock(index) with index out of range changes nothing
\* and writes nothing, also while a block is in edit mode.
C14_OutOfRangeNoOp ==
    \A index \in OutOfRange :
        LET t == editBlock(St, index)
        IN /\ t.blocks = blocks
           /\ t.currentBlockIndex = currentBlockIndex
           /\ t.selectedBlocks = selectedBlocks
           /\ t.nwrites = 0

\* C14 (amended): editBlock(index) with index out of range never changes the
\* blocks or the selection; with no block in edit mode it changes nothing,
\* and with a block in edit mode it commits that block: the edit index
\* becomes -1 and the document is written at once.
C14_OutOfRangeCommitsOnly ==
    \A index \in OutOfRange :
        LET t == editBlock(St, index)
        IN /\ t.blocks = blocks
           /\ t.selectedBlocks = selectedBlocks
           /\ ~t.err
           /\ IF currentBlockIndex < 0
              THEN t = St
              ELSE /\ t = finishEditing(St)
                   /\ t.currentBlockIndex = -1
                   /\ t.inputs = NoInputs
                   /\ t.nwrites = 1
                   /\ t.store[currentPageId].content = Serialize(blocks)

C14_Witness ==
    /\ lastOp.op = "insertAtCursor"
    /\ lastOp.index >= 0
    /\ ~err
    /\ currentBlockIndex = -1
    /\ inputs = NoInputs
    /\ nwrites = 1

\* C15: no sequence of operations raises a hard failure; an operation holding
\* an out-of-range index behaves as a no-op.
C15_NoHardFailure == ~err

\* C16: finishEditing with no block in edit mode changes nothing and writes
\* nothing.
C16_FinishNothingNoOp ==
    /\ currentBlockIndex < 0 => finishEditing(St) = St
    /\ (lastOp.op = "editBlock" /\ steps = 1) => (nwrites = 0 /\ saveTimers = 0)

C16_Witness ==
    /\ lastOp.op = "editBlock"
    /\ steps = 1
    /\ currentBlockIndex = 0
    /\ nwrites = 0
    /\ selectedBlocks = {}

\* C17: deleteSelectedBlocks with every block index selected leaves exactly
\* one block, with empty content, and an empty selection.
C17_DeleteAllLeavesOneEmpty ==
    [][(/\ lastOp'.op = "deleteSelectedBlocks"
        /\ (0..(Len(blocks) - 1)) \subseteq selectedBlocks)
          => /\ blocks' = << <<>> >>
             /\ selectedBlocks' = {}]_vars

C17_Witness ==
    /\ lastOp.op = "deleteSelectedBlocks"
    /\ steps = 3
    /\ blocks = << <<>> >>
    /\ selectedBlocks = {}
    /\ domBlocks = 1
    /\ nwrites = 1

\* C18: every deleteBlock call requests persistence, in both branches: when
\* it returns a write has been performed or is pending on the debounce timer.
C18_DeleteRequestsWrite ==
    lastOp.op = "deleteBlock" => (nwrites >= 1 \/ saveTimers >= 1)

\* C19: a keystroke in the edited block changes only that block's content;
\* the other blocks, the edit index and the selection stay, nothing is
\* written at once and one debounced write is pending afterwards.
C19_TypingChangesOneBlock ==
    [][lastOp'.op = "input" =>
          LET i == lastOp'.index
          IN /\ currentBlockIndex = i
             /\ currentBlockIndex' = i
             /\ Len(blocks') = Len(blocks)
             /\ \A j \in 1..Len(blocks) : j # i + 1 => blocks'[j] = blocks[j]
             /\ blocks'[i + 1] = inputs'[i]
             /\ blocks'[i + 1] # blocks[i + 1]
             /\ selectedBlocks' = selectedBlocks
             /\ nwrites' = 0
             /\ store' = store
             /\ saveTimers' = 1
             /\ saveTimeout' = "live"]_vars

C19_Witness ==
    /\ lastOp.op = "input"
    /\ lastOp.index = 1
    /\ Len(blocks) = 3
    /\ blocks[2] = <<"b", "a">>
    /\ saveTimers = 1
    /\ nwrites = 0

\* C20: ArrowUp at the text start of block i > 0 makes i-1 the edit index,
\* ArrowDown at the text end of block i < len-1 makes i+1 the edit index, at
\* the first and the last block they leave the edit index; the blocks and the
\* selection are unchanged in all four cases.
C20_ArrowsMoveEditIndex ==
    [][lastOp'.op \in {"ArrowUp", "ArrowDown"} =>
          LET i == lastOp'.index
              target == IF lastOp'.op = "ArrowUp"
                        THEN (IF i > 0 THEN i - 1 ELSE i)
                        ELSE (IF i < Len(blocks) - 1 THEN i + 1 ELSE i)
          IN /\ currentBlockIndex = i
             /\ currentBlockIndex' = target
             /\ DOMAIN inputs' = {target}
             /\ blocks' = blocks
             /\ selectedBlocks' = selectedBlocks
             /\ target = i => (inputs' = inputs /\ nwrites' = 0)]_vars

C20_Witness ==
    /\ lastOp.op = "ArrowUp"
    /\ lastOp.index = 1
    /\ currentBlockIndex = 0
    /\ DOMAIN inputs = {0}
    /\ Len(blocks) = 2

\* C21: loadPage's parsing returns at least one block for every text, the
\* empty text included; every block is trimmed; every block but the last is
\* non-empty.
C21_DeserializeShape ==
    rtPc = "done" =>
        /\ Len(rtOut) >= 1
        /\ \A k \in 1..Len(rtOut) : Trim(rtOut[k]) = rtOut[k]
        /\ \A k \in 1..(Len(rtOut) - 1) : rtOut[k] # <<>>

C21_Witness ==
    /\ rtPc = "done"
    /\ rtText = <<" ", "\n", "\n", "a">>
    /\ rtOut = << <<"a">> >>

\* C22: toggleBlockSelection only adds the index to or removes it from the
\* selected set: the blocks and the edit index are unchanged, nothing is
\* written and no debounce timer is started.
C22_ToggleOnlySelects ==
    [][lastOp'.op = "toggleBlockSelection" =>
          LET i == lastOp'.index
          IN /\ selectedBlocks' = IF i \in selectedBlocks
                                  THEN selectedBlocks \ {i}
                                  ELSE selectedBlocks \cup {i}
             /\ blocks' = blocks
             /\ currentBlockIndex' = currentBlockIndex
             /\ inputs' = inputs
             /\ nwrites' = 0
             /\ store' = store
             /\ saveTimers' = saveTimers
             /\ saveTimeout' = saveTimeout]_vars

C22_Witness ==
    /\ lastOp.op = "toggleBlockSelection"
    /\ lastOp.index = 1
    /\ selectedBlocks = {0}
    /\ steps = 3
    /\ saveTimers = 0

\* C23: opening a different page, or closing the page, while a debounced
\* write is pending does not flush it: nothing is written when the page is
\* left, the timer stays pending, and no later step stores anything under a
\* page other than the one that is open, so the edits since the last write
\* of the page that was left are not stored under it.
C23_LeavingDoesNotFlush ==
    [][/\ (/\ lastOp'.op \in {"openPage", "deletePage"}
           /\ currentPageId # None
           /\ currentPageId' # currentPageId)
          => /\ nwrites' = 0
             /\ saveTimers' = saveTimers
             /\ currentPageId \in DOMAIN store' =>
                   store'[currentPageId] = store[currentPageId]
       /\ \A p \in DOMAIN store \cap DOMAIN store' :
             p # currentPageId' => store'[p] = store[p]]_vars

C23_Witness ==
    /\ lastOp.op = "openPage"
    /\ currentPageId = "B"
    /\ steps = 3
    /\ saveTimers = 1
    /\ "A" \in DOMAIN store
    /\ store["A"].content = <<>>
    /\ blocks = <<OtherContent>>

\* the text contains the pattern somewhere, ignoring case
ContainsIgnoreCase(text, pattern) ==
    \E k \in 0..Len(text) : MatchesAt(pattern, text, k)

\* the ids of the stored pages other than pageId whose content contains the
\* wiki-link of pageId's title
LinkingPages(pages, pageId) ==
    {pages[i].id : i \in {j \in 1..Len(pages) :
        /\ pages[j].id # pageId
        /\ \E t \in 1..Len(pages) :
              /\ pages[t].id = pageId
              /\ ContainsIgnoreCase(pages[j].content, WikiLink(pages[t].title))}}

\* C24: getBacklinks(pageId) returns exactly the stored pages other than
\* pageId whose content contains [[title of pageId]], ignoring case, and the
\* empty list for an unknown pageId.
C24_BacklinksExact ==
    lkPc = "backlinks" =>
        {lkOut[k] : k \in 1..Len(lkOut)} = LinkingPages(lkPages, lkArg)

\* C25 (as stated): findPageByTitle returns a page exactly when some stored
\* title equals the name under case-insensitive exact comparison.
C25_ResolveExactIgnoreCase ==
    lkPc = "found" =>
        (lkOut # NoPage <=>
            \E i \in 1..Len(lkPages) :
                toLowerCase(lkPages[i].title) = toLowerCase(lkArg))

\* C25 (amended): findPageByTitle returns a page exactly when some stored
\* title equals the name once both are lower-cased and trimmed of leading and
\* trailing whitespace; the page returned is the first such page of the
\* store as it is at the call.
C25_ResolveTrimmedIgnoreCase ==
    lkPc = "found" =>
        LET same(i) == Trim(toLowerCase(lkPages[i].title)) = Trim(toLowerCase(lkArg))
        IN /\ lkOut # NoPage <=> \E i \in 1..Len(lkPages) : same(i)
           /\ lkOut # NoPage =>
                 \E i \in 1..Len(lkPages) :
                     /\ lkPages[i].id = lkOut
                     /\ same(i)
                     /\ \A j \in 1..(i - 1) : ~same(j)

C25_Witness ==
    /\ lkPc = "found"
    /\ lkEdits = 1
    /\ lkArg = <<"t">>
    /\ Len(lkPages) = 2
    /\ lkPages[1].title = <<"u">>
    /\ lkPages[2].title = <<"T", " ">>
    /\ lkOut = 2

\* C26: whenever a page is open the block sequence has at least one block,
\* after any sequence of editing operations and of AI result applications.
C26_OpenPageHasBlock ==
    /\ currentPageId # None => (Len(blocks) >= 1 /\ domBlocks >= 1)
    /\ lastOp.op \in {"insertSummary", "replaceContent"} => Len(blocks) >= 1

C26_Witness ==
    /\ lastOp.op = "replaceContent"
    /\ currentPageId = "A"
    /\ blocks = << <<"b">> >>
    /\ StoredContent = <<"b">>
    /\ nwrites = 1

\* C27: between events the edit index is -1 or a valid block index.
C27_EditIndexValid ==
    currentBlockIndex = -1
        \/ (currentBlockIndex >= 0 /\ currentBlockIndex < Len(blocks))

\* C28: after blocks were inserted or deleted (addBlock, deleteBlock, Enter
\* split, empty-block Backspace) every index in the selected set is still a
\* valid block index.
C28_SelectionStaysValid ==
    lastOp.op \in {"addBlock", "deleteBlock", "Enter", "Backspace"}
        => selectedBlocks \subseteq 0..(Len(blocks) - 1)

\* no debounce timer and no blur timer is pending
NoTimerPending == saveTimers = 0 /\ DOMAIN blurTimers = {}

\* C29: while a page stays open every change is eventually persisted: once
\* the pending timers have fired, the stored content of the open page is the
\* blocks joined by "\n\n" (or the blocks are still those loaded from it).
C29_PersistedWhenTimersDone ==
    (PageOpen /\ NoTimerPending /\ ~err)
        => \/ StoredContent = Serialize(blocks)
           \/ blocks = Deserialize(StoredContent)

\* C30: every write of the editor stores the current blocks and title under
\* the page that is open, and opening a page replaces blocks and title by
\* those of that page: a debounce or blur timer scheduled while A was open
\* never writes A's blocks or title into B after a switch from A to B.
C30_WritesBelongToOpenPage ==
    [][/\ nwrites' >= 1 =>
             /\ currentPageId' # None
             /\ currentPageId' = currentPageId
             /\ store'[currentPageId'].title =
                   (IF titleInput' = "" THEN "Untitled" ELSE titleInput')
             /\ \A p \in DOMAIN store' :
                   p # currentPageId' => (p \in DOMAIN store /\ store'[p] = store[p])
       /\ (nwrites' >= 1 /\ lastOp'.op \in {"saveTimer", "blurTimer"}) =>
             /\ blocks' = blocks
             /\ store'[currentPageId'].content = Serialize(blocks)
       /\ lastOp'.op = "openPage" =>
             /\ nwrites' = 0
             /\ blocks' = Deserialize(store[currentPageId'].content)
             /\ titleInput' = store[currentPageId'].title]_vars

C30_Witness ==
    /\ lastOp.op = "saveTimer"
    /\ steps = 4
    /\ currentPageId = "B"
    /\ nwrites = 1
    /\ DOMAIN store = {"A", "B"}
    /\ store["A"].content = <<>>
    /\ store["B"] = [title |-> "B", content |-> OtherContent]
    /\ blocks = <<OtherContent>>
    /\ titleInput = "B"
    /\ currentBlockIndex = 0

\* C31: Backspace in a block with text, or in block 0 even when empty, leaves
\* the blocks and the edit index as they are; Backspace in an empty later
\* block removes that block only, and no block's text is joined onto another.
C31_BackspaceNeverMerges ==
    [][/\ lastOp'.op = "BackspaceText" =>
             /\ blocks' = blocks
             /\ currentBlockIndex' = currentBlockIndex
             /\ inputs' = inputs
             /\ selectedBlocks' = selectedBlocks
             /\ nwrites' = 0
       /\ lastOp'.op \in {"Backspace", "BackspaceText"} =>
             \A k \in 1..Len(blocks') : \E j \in 1..Len(blocks) : blocks'[k] = blocks[j]]_vars

C31_Witness ==
    /\ lastOp.op = "BackspaceText"
    /\ lastOp.index = 1
    /\ currentBlockIndex = 1
    /\ blocks = << <<"a", "b">>, <<"b">> >>
    /\ DOMAIN inputs = {1}

\* C32: an active edit input bound to index i exists only while i is the edit
\* index, and it holds the text of block i; at most one input is active.
C32_InputBoundToEditIndex ==
    /\ Cardinality(DOMAIN inputs) <= 1
    /\ \A i \in DOMAIN inputs :
          /\ currentBlockIndex = i
          /\ i >= 0 /\ i < Len(blocks)
          /\ inputs[i] = blocks[i + 1]

C32_Witness ==
    /\ lastOp.op = "Enter"
    /\ steps = 4
    /\ DOMAIN inputs = {2}
    /\ currentBlockIndex = 2
    /\ Len(blocks) = 3
    /\ inputs[2] = <<>>

\* C33: a page deleted through the sidebar is never written back by a later
\* editor event or timer: a page absent from the store stays absent, nothing
\* is written while no page is open, and save leaves the store as it is when
\* the open page id is absent from the store.
C33_DeletedPageStaysDeleted ==
    [][/\ \A p \in Pages : p \notin DOMAIN store => p \notin DOMAIN store'
       /\ currentPageId' = None => nwrites' = 0
       /\ currentPageId = None =>
             \A p \in DOMAIN store' : p \in DOMAIN store /\ store'[p] = store[p]
       /\ \A p \in Pages \ DOMAIN store :
             save([St EXCEPT !.currentPageId = p]).store = store]_vars

C33_Witness ==
    /\ lastOp.op = "saveTimer"
    /\ steps = 4
    /\ currentPageId = None
    /\ "A" \notin DOMAIN store
    /\ saveTimers = 0
    /\ nwrites = 0
    /\ blocks = <<>>

\* C34: after a folder is deleted through the sidebar, every page that was
\* in it is at root and every child folder of it is at root, so that no
\* page and no folder refers to the deleted id
C34_DeleteMovesItemsToRoot ==
    fdLast.op = "deleteItem" =>
        /\ \A p \in DOMAIN fdLast.pages :
              fdLast.pages[p] = fdLast.id =>
                  p \in DOMAIN fdPages /\ fdPages[p] = NoFolder
        /\ \A f \in DOMAIN fdLast.folders :
              fdLast.folders[f] = fdLast.id =>
                  f \in DOMAIN fdFolders /\ fdFolders[f] = NoFolder
        /\ \A p \in DOMAIN fdPages : fdPages[p] # fdLast.id
        /\ \A f \in DOMAIN fdFolders : fdFolders[f] # fdLast.id

\* C35: after Storage.deleteFolder(id, true) has returned, the store holds
\* neither id, nor a folder that descended from id, nor a page that was in
\* id or in one of those folders
C35_DeleteContentsRecursive ==
    fdLast.op = "deleteFolder" =>
        LET gone == {fdLast.id} \cup Descendants(fdLast.folders, fdLast.id)
        IN /\ gone \cap DOMAIN fdFolders = {}
           /\ \A p \in DOMAIN fdLast.pages :
                 fdLast.pages[p] \in gone => p \notin DOMAIN fdPages

\* C36: the parentId relation on the stored folders is acyclic, and every
\* stored folder is reached from root through child links
C36_FolderTreeAcyclic ==
    \A f \in DOMAIN fdFolders :
        /\ ~HasAncestor(fdFolders, f, f, MaxFdIds)
        /\ ReachesRoot(fdFolders, f, MaxFdIds)

\* C37: when the response of an AI action arrives while another page (or no
\* page) is open than the one whose content was sent, the response replaces
\* neither the editor's blocks nor the stored content of any other page
C37_ResultOnlyToSentPage ==
    [][(/\ llmAction # "none"
        /\ lastOp'.op \in {"insertSummary", "replaceContent"}
        /\ currentPageId # llmPage)
       => /\ blocks' = blocks
          /\ \A p \in DOMAIN store :
                p # llmPage => p \in DOMAIN store' /\ store'[p] = store[p]]_vars

\* C38: in one recording Voice.finalTranscripts holds every result that was
\* delivered as final, once each and in the order of delivery, across
\* restarts of the recognizer
C38_FinalsAccumulated == vcFinal = vcDelivered

\* C39: confirming the rename of a page that is in the store leaves the
\* stored content of that page as it was immediately before the confirmation
C39_RenameKeepsContent ==
    [][(/\ rnDlg.id # None
        /\ lastOp'.op = "renameConfirm"
        /\ rnDlg.id \in DOMAIN store)
       => store'[rnDlg.id].content = store[rnDlg.id].content]_vars

====
